---- MODULE Spec2Model ----
(***************************************************************************)
(* State-machine model of odxproxy-mcpserver:                              *)
(*   - loadGlossary (src/src/glossary.ts) and OdxMCPServer.loadGlossaries  *)
(*     (src/src/server.ts): enrichment of a glossary catalog followed by   *)
(*     resource registration;                                              *)
(*   - the tool handlers get_companies, get_partners and create_partner    *)
(*     registered by OdxMCPServer.initBaseResource (src/src/server.ts).    *)
(*                                                                         *)
(* An optional value (a TypeScript `T | undefined`) is a sequence of       *)
(* length at most one: << >> is undefined, <<v>> is the value v.           *)
(* A JavaScript string that the code inspects character by character is a  *)
(* sequence of one-character strings; a field map (Record<string, any>) is *)
(* a set of <<field, type>> pairs.  Objects are shared by reference: the   *)
(* catalog array is the sequence `glossary`, and an index into it stands   *)
(* for the entry object held at that position.                             *)
(***************************************************************************)
EXTENDS Integers, Sequences, FiniteSets, TLC

VARIABLES
    glossary,     \* the catalog array handed to loadGlossary / loadGlossaries
    hasGlossary,  \* FALSE when loadGlossaries is handed null / undefined
    glossary0,    \* history: the catalog as it was when the call was made
    caller,       \* "none" | "loadGlossary" | "loadGlossaries"
    pc,           \* position of the running call
    idx,          \* index of the entry whose fields_get is awaited
    fetchLog,     \* fields_get calls issued by the latest call, in order
    replies,      \* outcome of each settled fields_get of the latest call, in order
    errorLog,     \* console.error diagnostics of the latest call, in order
    status,       \* promise returned by loadGlossary: pending/resolved/rejected
    result,       \* value loadGlossary resolved with: references to entries
    resources,    \* resources registered on the McpServer, in order
    tool,         \* tool handler being run
    input,        \* validated input of the running tool handler
    tpc,          \* position of the tool handler
    domain,       \* the handler's local `domain`
    calls,        \* remote calls issued by the running handler
    output,       \* text payload returned by the handler
    again,        \* TRUE once a second call has been made on the same catalog
    reads         \* <<resource, text>> for every content a resource read returned

gvars == <<glossary, hasGlossary, glossary0, caller, pc, idx, fetchLog, replies,
           errorLog, status, result, resources>>
tvars == <<tool, input, tpc, domain, calls, output>>
rvars == <<again, reads>>
vars == <<gvars, tvars, rvars>>

(***************************************************************************)
(* Bounds and the finite input sets                                        *)
(***************************************************************************)
MaxCatalog == 2

Undefined == << >>
Some(v) == <<v>>
Option(S) == {Undefined} \cup {Some(v) : v \in S}

Models == {"res.partner", "res.company", "sale.order"}
FieldsSources == {"dynamic", "static"}

EmptyMap == {}
AuthoredMap == {<<"name", "char">>}
FetchedMaps == {{<<"id", "integer">>}, {<<"id", "integer">>, <<"email", "char">>}}

\* GlossaryEntry: model, fields_source?, fields?, description?
GlossaryEntry ==
    [model : Models,
     fields_source : Option(FieldsSources),
     fields : Option({AuthoredMap}),
     description : Option({"Contacts"})]

RECURSIVE SeqsUpTo(_, _)
SeqsUpTo(S, n) ==
    IF n = 0 THEN {<< >>}
    ELSE LET shorter == SeqsUpTo(S, n - 1)
         IN  shorter \cup {Append(s, x) : s \in {t \in shorter : Len(t) = n - 1}, x \in S}

Catalogs == SeqsUpTo(GlossaryEntry, MaxCatalog)

(***************************************************************************)
(* loadGlossary                                                            *)
(***************************************************************************)
IsDynamicOrUnset(entry) == entry.fields_source # Some("static")

\* glossary.ts:170  entry.fields_source === "dynamic"
IsDynamic(entry) == entry.fields_source = Some("dynamic")

\* first index >= i whose entry is dynamic, or Len(g) + 1: the synchronous
\* part of the for-of loop up to the next await
RECURSIVE NextDynamic(_, _)
NextDynamic(g, i) ==
    IF i > Len(g) THEN Len(g) + 1
    ELSE IF IsDynamic(g[i]) THEN i
    ELSE NextDynamic(g, i + 1)

\* glossary.ts:173  res.result ?? {}   (the value then stored in entry.fields)
Coalesce(r) == IF r = Undefined THEN Some(EmptyMap) ELSE Some(r[1])

ReturnValueDropUnenriched(g) ==
    SelectSeq([k \in 1..Len(g) |-> k], LAMBDA k : g[k].fields # Undefined)

\* glossary.ts:179  return glossary  (the same array, hence the same entries)
ReturnValue(g) == [k \in 1..Len(g) |-> k]

\* glossary.ts:172  fields_get(entry.model, {context: {tz: "UTC"}})
FieldsGetCall(g, i) == [model |-> g[i].model, tz |-> "UTC", entry |-> i]

\* glossary.ts:169-179  the for-of loop resumed at entry `from`: it runs without
\* suspension over the entries that are not dynamic, then either issues the
\* fields_get of the next dynamic entry and suspends on it, or falls off the
\* end of the catalog and returns (which resolves the promise)
Continue(g, from, who) ==
    LET j == NextDynamic(g, from) IN
    /\ idx' = j
    /\ IF j <= Len(g)
       THEN /\ fetchLog' = Append(fetchLog, FieldsGetCall(g, j))
            /\ pc' = "fields_get"
            /\ status' = "pending"
            /\ result' = result
       ELSE /\ fetchLog' = fetchLog
            /\ pc' = IF who = "loadGlossaries" THEN "register" ELSE "done"
            /\ status' = "resolved"
            /\ result' = Some(ReturnValue(g))

\* glossary.ts:168  a direct call of the exported loadGlossary(glossary)
LoadGlossaryCall ==
    /\ pc = "idle"
    /\ hasGlossary
    /\ caller' = "loadGlossary"
    /\ glossary0' = glossary
    /\ Continue(glossary, 1, "loadGlossary")
    /\ UNCHANGED <<glossary, hasGlossary, replies, errorLog, resources, tvars, rvars>>

FieldsGetResolveKeepsExisting ==
    /\ pc = "fields_get"
    /\ \E r \in Option(FetchedMaps) :
          /\ glossary' = [glossary EXCEPT ![idx].fields =
                              IF @ = Undefined THEN Coalesce(r) ELSE @]
          /\ replies' = Append(replies, [ok |-> TRUE, result |-> r])
    /\ Continue(glossary', idx + 1, caller)
    /\ UNCHANGED <<hasGlossary, glossary0, caller, errorLog, resources, tvars, rvars>>

\* glossary.ts:172-173  fields_get resolves: entry.fields = res.result ?? {}
FieldsGetResolve ==
    /\ pc = "fields_get"
    /\ \E r \in Option(FetchedMaps) :
          /\ glossary' = [glossary EXCEPT ![idx].fields = Coalesce(r)]
          /\ replies' = Append(replies, [ok |-> TRUE, result |-> r])
    /\ Continue(glossary', idx + 1, caller)
    /\ UNCHANGED <<hasGlossary, glossary0, caller, errorLog, resources, tvars, rvars>>

FieldsGetRejectPropagates ==
    /\ pc = "fields_get"
    /\ replies' = Append(replies, [ok |-> FALSE, result |-> Undefined])
    /\ status' = "rejected"
    /\ pc' = "done"
    /\ UNCHANGED <<glossary, hasGlossary, glossary0, caller, idx, fetchLog,
                   errorLog, result, resources, tvars, rvars>>

FieldsGetRejectClearsFields ==
    /\ pc = "fields_get"
    /\ replies' = Append(replies, [ok |-> FALSE, result |-> Undefined])
    /\ errorLog' = Append(errorLog, glossary[idx].model)
    /\ glossary' = [glossary EXCEPT ![idx].fields = Some(EmptyMap)]
    /\ Continue(glossary', idx + 1, caller)
    /\ UNCHANGED <<hasGlossary, glossary0, caller, resources, tvars, rvars>>

\* glossary.ts:174-176  fields_get rejects: the catch block logs the model and
\* does nothing else; the loop goes on with the next entry
FieldsGetReject ==
    /\ pc = "fields_get"
    /\ replies' = Append(replies, [ok |-> FALSE, result |-> Undefined])
    /\ errorLog' = Append(errorLog, glossary[idx].model)
    /\ Continue(glossary, idx + 1, caller)
    /\ UNCHANGED <<glossary, hasGlossary, glossary0, caller, resources, tvars, rvars>>

(***************************************************************************)
(* OdxMCPServer.loadGlossaries                                             *)
(***************************************************************************)
\* server.ts:101-116  the arguments of one registerResource call; `entry` is
\* the entry object the content callback closes over
Resource(g, k) ==
    [name |-> "glossary_" \o g[k].model,
     uri |-> "glossary://" \o g[k].model,
     title |-> g[k].model \o " Glossary",
     description |-> IF g[k].description = Undefined THEN "" ELSE g[k].description[1],
     entry |-> k]

RegisterAllEnrichedOnly(registered, g, refs) ==
    registered \o SelectSeq([k \in 1..Len(refs) |-> Resource(g, refs[k])],
                            LAMBDA r : g[r.entry].fields \notin {Undefined, Some(EmptyMap)})

\* server.ts:100-117  one registerResource call per entry of enrichedGlossary,
\* in order (the registry is the log of those calls)
RegisterAll(registered, g, refs) ==
    registered \o [k \in 1..Len(refs) |-> Resource(g, refs[k])]

\* server.ts:95-99  loadGlossaries(glossary): with a null/undefined catalog
\* enrichedGlossary stays [] and the registration loop runs at once over
\* nothing; otherwise loadGlossary is called and awaited
LoadGlossariesCall ==
    /\ pc = "idle"
    /\ caller' = "loadGlossaries"
    /\ glossary0' = glossary
    /\ IF hasGlossary
       THEN /\ Continue(glossary, 1, "loadGlossaries")
            /\ resources' = resources
       ELSE /\ resources' = RegisterAll(resources, glossary, << >>)
            /\ pc' = "done"
            /\ UNCHANGED <<idx, fetchLog, status, result>>
    /\ UNCHANGED <<glossary, hasGlossary, replies, errorLog, tvars, rvars>>

\* server.ts:98-117  the continuation after `await loadGlossary(glossary)`:
\* enrichedGlossary is the resolved array and every entry of it is registered
LoadGlossariesRegister ==
    /\ pc = "register"
    /\ resources' = RegisterAll(resources, glossary, result[1])
    /\ pc' = "done"
    /\ UNCHANGED <<glossary, hasGlossary, glossary0, caller, idx, fetchLog, replies,
                   errorLog, status, result, tvars, rvars>>

(***************************************************************************)
(* Tool handlers registered by OdxMCPServer.initBaseResource               *)
(***************************************************************************)
Ids == {-1, 0, 7}
Chars == {"A", "a", "c", "@", "b", "5"}
Emails == {<<"A", "@", "b">>, <<"a", "@", "b">>}
Names == {<< >>, <<"A", "c">>}
Phones == {<< >>, <<"5">>}

\* JavaScript truthiness of an optional number / an optional string
TruthyNumber(n) == n # Undefined /\ n[1] # 0
TruthyString(s) == s # Undefined /\ s[1] # << >>

\* String.prototype.toLowerCase on the letters the inputs use
LowerOf(c) == IF c = "A" THEN "a" ELSE c
ToLowerCase(s) == [k \in 1..Len(s) |-> LowerOf(s[k])]

\* what search_read can resolve with: {result?: Record[]}
Records == {<< >>, <<[id |-> 7]>>, <<[id |-> 7], [id |-> 8]>>}

\* JSON.stringify(value, null, 2) of a list of records {id: n}
RECURSIVE StringifyItems(_, _)
StringifyItems(list, k) ==
    IF k > Len(list) THEN ""
    ELSE (IF k = 1 THEN "\n" ELSE ",\n")
             \o "  {\n    \"id\": " \o ToString(list[k].id) \o "\n  }"
             \o StringifyItems(list, k + 1)
Stringify(list) ==
    IF list = << >> THEN "[]" ELSE "[" \o StringifyItems(list, 1) \o "\n]"

\* server.ts:154,209  results.result ?? []
ResultOrEmpty(r) == IF r = Undefined THEN << >> ELSE r[1]

\* one remote call of the odxproxy client, as issued by a handler
RemoteCall(fn, model, params, tz) ==
    [fn |-> fn, model |-> model, params |-> params, tz |-> tz, state |-> "pending"]

CanInvoke == tpc \in {"idle", "returned", "rejected"}

\* server.ts:142-148  the conjunctive domain of get_companies
CompanyDomain(name, id) ==
    (IF TruthyString(name) THEN <<<<"name", "ilike", name[1]>>>> ELSE << >>)
        \o (IF TruthyNumber(id) THEN <<<<"id", "=", id[1]>>>> ELSE << >>)

\* server.ts:141-149  get_companies({name, id}) up to `await search_read`
GetCompaniesInvoke ==
    /\ CanInvoke
    /\ \E id \in Option(Ids), name \in Option(Names) :
          /\ input' = [id |-> id, name |-> name]
          /\ domain' = CompanyDomain(name, id)
    /\ tool' = "get_companies"
    /\ calls' = <<RemoteCall("search_read", "res.company", <<domain'>>, "Asia/Singapore")>>
    /\ output' = Undefined
    /\ tpc' = "await"
    /\ UNCHANGED <<gvars, rvars>>

PartnerDomainQueriesAll(id, email, name) ==
    IF TruthyNumber(id) THEN Some(<<<<"id", "=", id[1]>>>>)
    ELSE IF TruthyString(email) /\ TruthyString(name)
    THEN Some(<<"|", <<"email", "=", ToLowerCase(email[1])>>, <<"name", "ilike", name[1]>>>>)
    ELSE IF TruthyString(email) THEN Some(<<<<"email", "=", ToLowerCase(email[1])>>>>)
    ELSE IF TruthyString(name) THEN Some(<<<<"name", "ilike", name[1]>>>>)
    ELSE Some(<< >>)

\* server.ts:180-199  the domain of get_partners; Undefined stands for the
\* final else branch, which returns without a domain
PartnerDomain(id, email, name) ==
    IF TruthyNumber(id) THEN Some(<<<<"id", "=", id[1]>>>>)
    ELSE IF TruthyString(email) /\ TruthyString(name)
    THEN Some(<<"|", <<"email", "=", ToLowerCase(email[1])>>, <<"name", "ilike", name[1]>>>>)
    ELSE IF TruthyString(email) THEN Some(<<<<"email", "=", ToLowerCase(email[1])>>>>)
    ELSE IF TruthyString(name) THEN Some(<<<<"name", "ilike", name[1]>>>>)
    ELSE Undefined

\* server.ts:179-203  get_partners({id, email, name}): either the early
\* return of "[]" or the handler up to `await search_read`
GetPartnersInvoke ==
    /\ CanInvoke
    /\ \E id \in Option(Ids), email \in Option(Emails), name \in Option(Names) :
          /\ input' = [id |-> id, email |-> email, name |-> name]
          /\ LET d == PartnerDomain(id, email, name) IN
             IF d = Undefined
             THEN /\ domain' = << >>
                  /\ calls' = << >>
                  /\ output' = Some("[]")
                  /\ tpc' = "returned"
             ELSE /\ domain' = d[1]
                  /\ calls' = <<RemoteCall("search_read", "res.partner", d[1], "Asia/Singapore")>>
                  /\ output' = Undefined
                  /\ tpc' = "await"
    /\ tool' = "get_partners"
    /\ UNCHANGED <<gvars, rvars>>

\* server.ts:149-156, 201-212  search_read resolves: the handler returns
\* JSON.stringify(results.result ?? [], null, 2)
SearchReadResolve ==
    /\ tpc = "await"
    /\ tool \in {"get_companies", "get_partners"}
    /\ \E r \in Option(Records) : output' = Some(Stringify(ResultOrEmpty(r)))
    /\ calls' = [calls EXCEPT ![1].state = "resolved"]
    /\ tpc' = "returned"
    /\ UNCHANGED <<gvars, rvars, tool, input, domain>>

\* server.ts:149, 201  search_read rejects: nothing catches it, the handler rejects
SearchReadReject ==
    /\ tpc = "await"
    /\ tool \in {"get_companies", "get_partners"}
    /\ calls' = [calls EXCEPT ![1].state = "rejected"]
    /\ tpc' = "rejected"
    /\ UNCHANGED <<gvars, rvars, tool, input, domain, output>>

\* a JavaScript value of a payload property: a boolean or a string
JsBoolean(b) == <<"boolean", b>>
JsString(s) == <<"string", s>>

\* a || b on an optional string / boolean: every falsy value gives b
StringOrDefault(s, d) == IF TruthyString(s) THEN JsString(s[1]) ELSE d
BooleanOrDefault(b, d) == IF b # Undefined /\ b[1] THEN JsBoolean(b[1]) ELSE d

\* a ?? b on an optional string / boolean: only undefined gives b
StringOr(s, d) == IF s = Undefined THEN d ELSE JsString(s[1])
BooleanOr(b, d) == IF b = Undefined THEN d ELSE JsBoolean(b[1])

CreatePayloadFalsy(in) ==
    [name |-> JsString(in.name),
     email |-> StringOrDefault(in.email, JsBoolean(FALSE)),
     phone |-> StringOrDefault(in.phone, JsBoolean(FALSE)),
     is_company |-> BooleanOrDefault(in.is_company, JsBoolean(FALSE))]

\* server.ts:232-237  the record sent by create_partner
CreatePayload(in) ==
    [name |-> JsString(in.name),
     email |-> StringOr(in.email, JsBoolean(FALSE)),
     phone |-> StringOr(in.phone, JsBoolean(FALSE)),
     is_company |-> BooleanOr(in.is_company, JsBoolean(FALSE))]

\* server.ts:231-237  create_partner({name, email, phone, is_company}) up to
\* `await create`
CreatePartnerInvoke ==
    /\ CanInvoke
    /\ \E name \in Names, email \in Option(Emails), phone \in Option(Phones),
          is_company \in Option(BOOLEAN) :
          input' = [name |-> name, email |-> email, phone |-> phone,
                    is_company |-> is_company]
    /\ tool' = "create_partner"
    /\ domain' = << >>
    /\ calls' = <<RemoteCall("create", "res.partner", <<<<CreatePayload(input')>>>>, "UTC")>>
    /\ output' = Undefined
    /\ tpc' = "await"
    /\ UNCHANGED <<gvars, rvars>>

\* server.ts:238-245  create resolves: the handler returns the literal "true"
CreateResolve ==
    /\ tpc = "await"
    /\ tool = "create_partner"
    /\ calls' = [calls EXCEPT ![1].state = "resolved"]
    /\ output' = Some("true")
    /\ tpc' = "returned"
    /\ UNCHANGED <<gvars, rvars, tool, input, domain>>

\* server.ts:232  create rejects: nothing catches it, the handler rejects
CreateReject ==
    /\ tpc = "await"
    /\ tool = "create_partner"
    /\ calls' = [calls EXCEPT ![1].state = "rejected"]
    /\ tpc' = "rejected"
    /\ UNCHANGED <<gvars, rvars, tool, input, domain, output>>

GlossaryInit ==
    /\ hasGlossary \in BOOLEAN
    /\ glossary \in (IF hasGlossary THEN Catalogs ELSE {<< >>})
    /\ glossary0 = glossary
    /\ caller = "none"
    /\ pc = "idle"
    /\ idx = 0
    /\ fetchLog = << >>
    /\ replies = << >>
    /\ errorLog = << >>
    /\ status = "none"
    /\ result = Undefined
    /\ resources = << >>

\* no second call made and no resource read yet
NoReads ==
    /\ again = FALSE
    /\ reads = {}

ToolIdle ==
    /\ tool = "none"
    /\ input = Undefined
    /\ tpc = "idle"
    /\ domain = << >>
    /\ calls = << >>
    /\ output = Undefined

Init == GlossaryInit /\ ToolIdle /\ NoReads

Next ==
    \/ LoadGlossaryCall
    \/ LoadGlossariesCall
    \/ FieldsGetResolve
    \/ FieldsGetReject
    \/ LoadGlossariesRegister

Spec == Init /\ [][Next]_vars

\* the server with its tools registered and no glossary call made
GlossaryIdle ==
    /\ hasGlossary = FALSE
    /\ glossary = << >>
    /\ glossary0 = << >>
    /\ caller = "none"
    /\ pc = "idle"
    /\ idx = 0
    /\ fetchLog = << >>
    /\ replies = << >>
    /\ errorLog = << >>
    /\ status = "none"
    /\ result = Undefined
    /\ resources = << >>

ToolInit == GlossaryIdle /\ ToolIdle /\ NoReads

ToolNext ==
    \/ GetCompaniesInvoke
    \/ GetPartnersInvoke
    \/ CreatePartnerInvoke
    \/ SearchReadResolve
    \/ SearchReadReject
    \/ CreateResolve
    \/ CreateReject

ToolSpec == ToolInit /\ [][ToolNext]_vars

(***************************************************************************)
(* A second call on the same catalog, and reads of the published resources *)
(***************************************************************************)
\* JSON.stringify of a field map with indent 2 at nesting depth 1; the
\* properties are written in the order FieldOrder
FieldOrder == <<"name", "id", "email">>
TypeOf(m, f) == CHOOSE t \in {"char", "integer"} : <<f, t>> \in m
RECURSIVE StringifyFields(_, _, _)
StringifyFields(m, k, first) ==
    IF k > Len(FieldOrder) THEN ""
    ELSE IF \E t \in {"char", "integer"} : <<FieldOrder[k], t>> \in m
    THEN (IF first THEN "\n" ELSE ",\n")
             \o "    \"" \o FieldOrder[k] \o "\": \"" \o TypeOf(m, FieldOrder[k]) \o "\""
             \o StringifyFields(m, k + 1, FALSE)
    ELSE StringifyFields(m, k + 1, first)
StringifyMap(m) ==
    IF m = {} THEN "{}" ELSE "{" \o StringifyFields(m, 1, TRUE) \o "\n  }"

\* server.ts:114  JSON.stringify(entry, null, 2): a property that is
\* undefined is left out (the properties are written in a fixed order)
StringifyEntry(e) ==
    "{\n  \"model\": \"" \o e.model \o "\""
        \o (IF e.fields_source = Undefined THEN ""
            ELSE ",\n  \"fields_source\": \"" \o e.fields_source[1] \o "\"")
        \o (IF e.fields = Undefined THEN ""
            ELSE ",\n  \"fields\": " \o StringifyMap(e.fields[1]))
        \o (IF e.description = Undefined THEN ""
            ELSE ",\n  \"description\": \"" \o e.description[1] \o "\"")
        \o "\n}"

ReadTextOfCopy(k) == StringifyEntry(glossary0[resources[k].entry])

\* server.ts:110-116  the content callback of resource k: it serialises the
\* entry object it closed over, as that object is when the read is made
ReadText(k) == StringifyEntry(glossary[resources[k].entry])

\* server.ts:110-116  a client reads resource k
ReadResource ==
    /\ \E k \in 1..Len(resources) :
          reads' = reads \cup {<<k, ReadText(k)>>}
    /\ UNCHANGED <<gvars, tvars, again>>

\* glossary.ts:169-179  the loop of a new call, from the first entry; the
\* logs start again with this call
Restart(g, who) ==
    LET j == NextDynamic(g, 1) IN
    /\ idx' = j
    /\ replies' = << >>
    /\ errorLog' = << >>
    /\ IF j <= Len(g)
       THEN /\ fetchLog' = <<FieldsGetCall(g, j)>>
            /\ pc' = "fields_get"
            /\ status' = "pending"
            /\ result' = result
       ELSE /\ fetchLog' = << >>
            /\ pc' = IF who = "loadGlossaries" THEN "register" ELSE "done"
            /\ status' = "resolved"
            /\ result' = Some(ReturnValue(g))

\* glossary.ts:168  loadGlossary(glossary) called a second time, on the
\* catalog the first call was given
LoadGlossaryAgain ==
    /\ pc = "done"
    /\ hasGlossary
    /\ ~again
    /\ again' = TRUE
    /\ caller' = "loadGlossary"
    /\ glossary0' = glossary
    /\ Restart(glossary, "loadGlossary")
    /\ UNCHANGED <<glossary, hasGlossary, resources, tvars, reads>>

\* server.ts:95-99  loadGlossaries(glossary) called a second time, on the
\* catalog the first call was given
LoadGlossariesAgain ==
    /\ pc = "done"
    /\ hasGlossary
    /\ ~again
    /\ again' = TRUE
    /\ caller' = "loadGlossaries"
    /\ glossary0' = glossary
    /\ Restart(glossary, "loadGlossaries")
    /\ UNCHANGED <<glossary, hasGlossary, resources, tvars, reads>>

\* the first registerResource call of the loop names a URI that an earlier
\* call registered
AlreadyRegistered ==
    /\ result # Undefined
    /\ result[1] # << >>
    /\ \E k \in 1..Len(resources) :
          resources[k].uri = Resource(glossary, result[1][1]).uri

\* server.ts:100-117  the registration loop where no URI is registered yet
RegisterFirstTime == ~AlreadyRegistered /\ LoadGlossariesRegister

\* server.ts:101  registerResource refuses a URI that is already registered
\* by throwing: the loop ends there and loadGlossaries rejects, with the
\* registry as it was
RegisterResourceThrows ==
    /\ pc = "register"
    /\ AlreadyRegistered
    /\ pc' = "done"
    /\ UNCHANGED <<glossary, hasGlossary, glossary0, caller, idx, fetchLog, replies,
                   errorLog, status, result, resources, tvars, rvars>>

RerunNext ==
    \/ LoadGlossaryCall
    \/ LoadGlossariesCall
    \/ FieldsGetResolve
    \/ FieldsGetReject
    \/ RegisterFirstTime
    \/ RegisterResourceThrows
    \/ LoadGlossaryAgain
    \/ LoadGlossariesAgain
    \/ ReadResource

\* the catalogs of the second-call runs: entry i describes the i-th model,
\* so the model identifiers are unique
ModelAt == <<"res.partner", "res.company", "sale.order", "account.move">>
RerunCatalogs ==
    {c \in SeqsUpTo([model : {ModelAt[i] : i \in 1..Len(ModelAt)},
                     fields_source : Option(FieldsSources),
                     fields : Option({AuthoredMap}),
                     description : {Undefined}], MaxCatalog) :
        \A i \in 1..Len(c) : c[i].model = ModelAt[i]}

RerunInit ==
    /\ hasGlossary = TRUE
    /\ glossary \in RerunCatalogs
    /\ glossary0 = glossary
    /\ caller = "none"
    /\ pc = "idle"
    /\ idx = 0
    /\ fetchLog = << >>
    /\ replies = << >>
    /\ errorLog = << >>
    /\ status = "none"
    /\ result = Undefined
    /\ resources = << >>
    /\ ToolIdle
    /\ NoReads

RerunSpec == RerunInit /\ [][RerunNext]_vars

(***************************************************************************)
(* Properties of loadGlossary and loadGlossaries                           *)
(***************************************************************************)
Entries == 1..Len(glossary0)
Settled == 1..Len(replies)
\* loadGlossary has run to its end
Finished == caller # "none" /\ hasGlossary /\ pc \in {"register", "done"}
\* the settled fetches issued for entry i
FetchesOf(i) == {k \in Settled : fetchLog[k].entry = i}
WasDynamic(i) == glossary0[i].fields_source = Some("dynamic")

\* C1 (failure isolation): whichever fetches reject, the promise of
\* loadGlossary is never rejected; once the call has finished it is resolved
\* and every dynamic entry, also one after a failing entry, has had its own
\* fetch; and every entry whose fetch succeeded holds the result of that fetch
\* (the empty mapping standing in for a missing result payload).
C1_FailureIsolation ==
    /\ status # "rejected"
    /\ Len(replies) <= Len(fetchLog)
    /\ Finished =>
          /\ status = "resolved"
          /\ \A i \in Entries : WasDynamic(i) => Cardinality(FetchesOf(i)) = 1
    /\ \A k \in Settled :
          replies[k].ok =>
              glossary[fetchLog[k].entry].fields =
                  (IF replies[k].result = Undefined THEN <<{}>> ELSE replies[k].result)

\* a finished call in which a fetch failed and a later entry's fetch succeeded
C1_Witness ==
    /\ Finished
    /\ status = "resolved"
    /\ \E k1, k2 \in Settled :
          /\ k1 < k2
          /\ ~replies[k1].ok
          /\ replies[k2].ok
          /\ replies[k2].result # Undefined
          /\ glossary[fetchLog[k2].entry].fields = replies[k2].result

C3_TotalCoverage ==
    status = "resolved" =>
        /\ result # Undefined
        /\ Len(result[1]) = Len(glossary0)
        /\ \A i \in Entries : glossary[result[1][i]].model = glossary0[i].model

\* a resolved call on a two-entry catalog with one failed and one good fetch
C3_Witness ==
    /\ status = "resolved"
    /\ Len(glossary0) >= 2
    /\ \E k1, k2 \in Settled : ~replies[k1].ok /\ replies[k2].ok
    /\ \E i \in Entries : glossary[i].fields = Undefined

\* C4 (non-dynamic entries untouched): an entry whose fields_source is
\* "static" or absent is never fetched and is at every moment exactly the
\* entry it was before the call, whatever happens to the other entries.
C4_NonDynamicUntouched ==
    \A i \in Entries :
        ~WasDynamic(i) =>
            /\ glossary[i] = glossary0[i]
            /\ \A k \in 1..Len(fetchLog) : fetchLog[k].entry # i

\* a finished call over a non-dynamic entry with authored fields and a dynamic
\* entry whose fields were replaced by a fetch
C4_Witness ==
    /\ Finished
    /\ \E i, j \in Entries :
          /\ ~WasDynamic(i)
          /\ glossary[i].fields = Some(AuthoredMap)
          /\ WasDynamic(j)
          /\ glossary[j].fields # glossary0[j].fields

UniqueModels ==
    \A i, j \in Entries : glossary0[i].model = glossary0[j].model => i = j

\* C5 (resource totality): when loadGlossaries has finished on a catalog of N
\* entries with unique model identifiers, exactly N resources are registered,
\* the i-th for the i-th entry with name glossary_<model> and URI
\* glossary://<model>, all URIs distinct, entries whose enrichment failed
\* included.
C5_ResourceTotality ==
    (caller = "loadGlossaries" /\ hasGlossary /\ pc = "done" /\ UniqueModels) =>
        /\ Len(resources) = Len(glossary0)
        /\ \A i \in Entries :
              /\ resources[i].name = "glossary_" \o glossary0[i].model
              /\ resources[i].uri = "glossary://" \o glossary0[i].model
              /\ resources[i].entry = i
        /\ \A i, j \in Entries : resources[i].uri = resources[j].uri => i = j

\* loadGlossaries finished on two distinct models, one of which failed to
\* enrich and has no fields, and both are registered
C5_Witness ==
    /\ caller = "loadGlossaries" /\ pc = "done" /\ UniqueModels
    /\ Len(glossary0) = 2
    /\ Len(resources) = 2
    /\ \E k \in Settled : ~replies[k].ok /\ glossary[fetchLog[k].entry].fields = Undefined

(***************************************************************************)
(* Properties of the tool handlers                                         *)
(***************************************************************************)
InPartners == tool = "get_partners"
InCompanies == tool = "get_companies"
InCreate == tool = "create_partner"
\* the search_read calls on res.partner issued by the running handler
PartnerReads ==
    {k \in 1..Len(calls) : calls[k].fn = "search_read" /\ calls[k].model = "res.partner"}

\* C6 as stated: whenever get_partners is given an id, whatever its value and
\* whatever email and name are, the filter sent to search_read is exactly
\* [["id","=",id]].
C6_PartnerIdPrecedence ==
    (InPartners /\ input.id # Undefined) =>
        /\ Len(calls) = 1
        /\ calls[1].fn = "search_read"
        /\ calls[1].params = <<<<"id", "=", input.id[1]>>>>

\* C7 as stated: when get_partners is given no id, an email and a name give
\* the disjunction of the lowercased-email match and the name match, an email
\* alone gives the email match, a name alone gives the name match, and in
\* each of these cases exactly one search_read on res.partner is issued.
C7_PartnerFilterWithoutId ==
    (InPartners /\ input.id = Undefined
        /\ (input.email # Undefined \/ input.name # Undefined)) =>
        /\ Len(calls) = 1
        /\ Cardinality(PartnerReads) = 1
        /\ calls[1].params =
              (IF input.email # Undefined /\ input.name # Undefined
               THEN <<"|", <<"email", "=", ToLowerCase(input.email[1])>>,
                      <<"name", "ilike", input.name[1]>>>>
               ELSE IF input.email # Undefined
               THEN <<<<"email", "=", ToLowerCase(input.email[1])>>>>
               ELSE <<<<"name", "ilike", input.name[1]>>>>)

\* C8 (empty-input partner lookup): get_partners given none of id, email and
\* name returns the text "[]" and issues no remote call; and whenever
\* get_partners has issued a remote call, at least one of the three was given.
C8_EmptyPartnerLookup ==
    InPartners =>
        /\ (input.id = Undefined /\ input.email = Undefined /\ input.name = Undefined) =>
              /\ tpc = "returned"
              /\ output = <<"[]">>
              /\ calls = << >>
        /\ calls # << >> =>
              (input.id # Undefined \/ input.email # Undefined \/ input.name # Undefined)

\* get_partners has returned on the empty input
C8_Witness ==
    /\ InPartners
    /\ input = [id |-> Undefined, email |-> Undefined, name |-> Undefined]
    /\ tpc = "returned"
    /\ output = Some("[]")

\* C9 (partner creation): create_partner issues exactly one call, a create on
\* res.partner, whose record has the given name and, for email, phone and
\* is_company, the given value when one is given and false when it is
\* omitted; "true" is returned only once that call has resolved, and when the
\* call rejects the handler rejects and returns nothing.
C9_PartnerCreation ==
    InCreate =>
        /\ Len(calls) = 1
        /\ calls[1].fn = "create"
        /\ calls[1].model = "res.partner"
        /\ Len(calls[1].params) = 1
        /\ Len(calls[1].params[1]) = 1
        /\ LET sent == calls[1].params[1][1] IN
              /\ sent.name = <<"string", input.name>>
              /\ sent.email = (IF input.email = Undefined THEN <<"boolean", FALSE>>
                               ELSE <<"string", input.email[1]>>)
              /\ sent.phone = (IF input.phone = Undefined THEN <<"boolean", FALSE>>
                               ELSE <<"string", input.phone[1]>>)
              /\ sent.is_company = (IF input.is_company = Undefined THEN <<"boolean", FALSE>>
                                    ELSE <<"boolean", input.is_company[1]>>)
        /\ output # Undefined => (output = <<"true">> /\ calls[1].state = "resolved")
        /\ calls[1].state = "resolved" => (tpc = "returned" /\ output = <<"true">>)
        /\ calls[1].state = "rejected" => (tpc = "rejected" /\ output = Undefined)

\* create_partner has returned "true" for a name alone, every optional
\* property sent as false
C9_Witness ==
    /\ InCreate
    /\ input.name = <<"A", "c">>
    /\ input.email = Undefined /\ input.phone = Undefined /\ input.is_company = Undefined
    /\ calls[1].params[1][1].phone = JsBoolean(FALSE)
    /\ calls[1].state = "resolved"
    /\ output = Some("true")

\* C10 as stated: the filter of get_companies is the name match when a name
\* is given followed by the id match when an id is given, whatever the id,
\* empty when neither is given, and exactly one read on res.company is made
\* with it.
C10_CompanyLookup ==
    InCompanies =>
        /\ domain =
              (IF input.name # Undefined THEN <<<<"name", "ilike", input.name[1]>>>> ELSE << >>)
                  \o (IF input.id # Undefined THEN <<<<"id", "=", input.id[1]>>>> ELSE << >>)
        /\ Len(calls) = 1
        /\ calls[1].fn = "search_read"
        /\ calls[1].model = "res.company"
        /\ calls[1].params = <<domain>>

(***************************************************************************)
(* Properties of a second call and of resource reads                       *)
(***************************************************************************)
\* the second call's run of loadGlossary has run to its end; glossary0 is
\* then the catalog as the first call left it
SecondFinished == again /\ Finished
DynamicEntries == {i \in Entries : WasDynamic(i)}

EntryOf(k) == resources[k].entry

\* C12 as stated: no resource is registered until the enrichment pass of
\* loadGlossaries has finished, and a published entry is never mutated
\* again, so that whatever else runs, a further loadGlossary or
\* loadGlossaries call on the same catalog included, every read of a
\* resource returns the serialization of its entry with the post-enrichment
\* fields and repeated reads of a resource return the same content.
C12_Original ==
    /\ (~again /\ pc # "done") => resources = << >>
    /\ \A p \in reads : p[2] = StringifyEntry(glossary[EntryOf(p[1])])
    /\ \A p, q \in reads : p[1] = q[1] => p[2] = q[2]

\* C12 (amended): no resource is registered until the enrichment pass of
\* loadGlossaries has finished; a read returns the serialization of the
\* entry object as it is when the read is made.  Until a further call is
\* made on the same catalog that is the entry with its post-enrichment
\* fields, and repeated reads return the same content; a further
\* loadGlossary or loadGlossaries call rewrites the published entries in
\* place, and every read then returned the entry either as the catalog was
\* when that call was made or as the call has rewritten it.
C12_EnrichBeforePublish ==
    /\ (~again /\ pc # "done") => (resources = << >> /\ reads = {})
    /\ ~again =>
          /\ \A p \in reads : p[2] = StringifyEntry(glossary[EntryOf(p[1])])
          /\ \A p, q \in reads : p[1] = q[1] => p[2] = q[2]
    /\ again =>
          \A p \in reads :
              \/ p[2] = StringifyEntry(glossary[EntryOf(p[1])])
              \/ p[2] = StringifyEntry(glossary0[EntryOf(p[1])])

\* a resource read before and after a further call replaced its entry's
\* fields returned two different contents, the later one with the new fields
C12_Witness ==
    /\ again
    /\ pc = "done"
    /\ \E p, q \in reads :
          /\ p[1] = q[1]
          /\ p[2] # q[2]
          /\ p[2] = StringifyEntry(glossary0[EntryOf(p[1])])
          /\ q[2] = StringifyEntry(glossary[EntryOf(q[1])])
          /\ glossary[EntryOf(q[1])].fields # glossary0[EntryOf(q[1])].fields

====
